---- MODULE Spec2Model ----
(***************************************************************************)
(* Model of the personal-library app of src/App.js: the two AsyncStorage   *)
(* entries ('books', 'lastBook'), the four screens of the stack navigator, *)
(* and the asynchronous handlers saveBook and deleteBook, each split at    *)
(* its awaits (the storage read, the storage write).                       *)
(***************************************************************************)
EXTENDS Integers, Sequences, FiniteSets, Bags, TLC

\* ---------------------------------------------------------------- bounds
MaxBooks == 2      \* adds are offered while the collection is shorter
MaxTasks == 2      \* handler invocations in flight at once

\* The values Date.now() takes, in the order the clock reaches them
Times == {1, 2}

\* ------------------------------------------------------------ text values
\* A text is a sequence of one-character strings.
Titles   == { <<>>, <<" ">>, <<"A">>, <<"B">> }
Authors  == { <<>>, <<"X">> }
Statuses == { <<" ">>, <<"r">> }

IsSpace(c) == c = " "

RECURSIVE TrimStart(_)
TrimStart(s) ==
  IF s = <<>> THEN <<>>
  ELSE IF IsSpace(Head(s)) THEN TrimStart(Tail(s)) ELSE s

RECURSIVE TrimEnd(_)
TrimEnd(s) ==
  IF s = <<>> THEN <<>>
  ELSE IF IsSpace(s[Len(s)]) THEN TrimEnd(SubSeq(s, 1, Len(s) - 1)) ELSE s

\* String.prototype.trim
Trim(s) == TrimEnd(TrimStart(s))

DigitChars == <<"0", "1", "2", "3", "4", "5", "6", "7", "8", "9">>

\* String(n) for a non-negative integer: its decimal digits
RECURSIVE ToStr(_)
ToStr(n) ==
  IF n < 10 THEN <<DigitChars[n + 1]>>
  ELSE ToStr(n \div 10) \o <<DigitChars[(n % 10) + 1]>>

\* ------------------------------------------------------------------ books
Book(id, title, author, status) ==
  [id |-> id, title |-> title, author |-> author, status |-> status]

\* null / undefined where a book is expected
NoBook == Book(0, <<>>, <<>>, <<>>)

\* JSON.stringify of an array of books: one tuple per object
JSONStringify(books) ==
  [i \in 1..Len(books) |->
     <<books[i].id, books[i].title, books[i].author, books[i].status>>]

\* JSON.parse of such a text
JSONParse(str) ==
  [i \in 1..Len(str) |-> Book(str[i][1], str[i][2], str[i][3], str[i][4])]

\* An AsyncStorage entry: absent (getItem gives null) or a text
NoItem    == [present |-> FALSE, val |-> <<>>]
Item(val) == [present |-> TRUE, val |-> val]

\* Array.prototype.find(b => String(b.id) === lastBookId)
RECURSIVE Find(_, _)
Find(books, lastBookId) ==
  IF books = <<>> THEN NoBook
  ELSE IF ToStr(Head(books).id) = lastBookId THEN Head(books)
  ELSE Find(Tail(books), lastBookId)

Ids(books) == { books[i].id : i \in 1..Len(books) }

\* ------------------------------------------------------------------ state
VARIABLES
  booksItem,     \* AsyncStorage entry 'books'
  lastBookItem,  \* AsyncStorage entry 'lastBook'
  now,           \* the value Date.now() returns
  stack,         \* routes of the stack navigator, the focused one last
  tasks,         \* bag of saveBook / deleteBook invocations suspended at an await
  env,           \* what the surroundings can do: env.faulty, whether AsyncStorage
                 \* can reject a call; env.rapid, whether the user presses Save
                 \* or Delete again while a handler is in flight
  ev             \* the handler step taken last

vars == <<booksItem, lastBookItem, now, stack, tasks, env, ev>>

\* How a call of AsyncStorage can end: TRUE when its promise resolves
Outcomes == IF env.faulty THEN BOOLEAN ELSE {TRUE}

\* A route with the state of its screen: Home keeps lastBook in book,
\* BookDetails and AddEditBook keep route.params.book in book, BookList
\* keeps its books. What the three inputs of AddEditBook hold when Save is
\* pressed is an input of saveBook.
Route(name, key, book, books) ==
  [name |-> name, key |-> key, book |-> book, books |-> books]

\* An invocation of saveBook (kind "save") or deleteBook (kind "delete"):
\* the values its closure holds, the await it is suspended at (pc),
\* the array it is about to write (out), and whether the 'books' entry has
\* been written since it read it (stale).
Task(kind, key, editing, id, title, author, status) ==
  [kind |-> kind, key |-> key, editing |-> editing, id |-> id,
   title |-> title, author |-> author, status |-> status,
   pc |-> "read", stale |-> FALSE, out |-> <<>>]

NoTask == [Task("none", 0, FALSE, 0, <<>>, <<>>, <<>>) EXCEPT !.pc = "none"]

\* op: the step; ok: whether its setItem resolved; lost: whether the
\* invocation t that ended with it was an add writing from a snapshot older
\* than the entry, and a record persisted before the step is gone after it.
Ev(op, t, ok, lost) ==
  [op |-> op, ok |-> ok,
   lost |-> t.kind = "save" /\ ~t.editing /\ t.stale /\ lost]

NoEv == Ev("ui", NoTask, TRUE, FALSE)

Lost(before, after) ==
  \E i \in 1..Len(before) : \A j \in 1..Len(after) : after[j] # before[i]

\* ------------------------------------------------------------ store reads
ParsedItem(item) == IF item.present THEN JSONParse(item.val) ELSE <<>>

\* What the 'books' entry holds, read without failure
Persisted == ParsedItem(booksItem)

\* getBooks: ok is whether AsyncStorage.getItem resolves
getBooks(ok) == IF ok THEN Persisted ELSE <<>>

\* A variant that falls back to the first book when the id is not found
fetchLastBookFallback(okLast, okBooks) ==
  IF ~okLast THEN NoBook
  ELSE IF lastBookItem.present /\ lastBookItem.val # <<>>
       THEN LET books == getBooks(okBooks)
            IN IF Find(books, lastBookItem.val) = NoBook /\ books # <<>>
               THEN Head(books)
               ELSE Find(books, lastBookItem.val)
       ELSE NoBook

\* fetchLastBook: the value setLastBook receives (NoBook: it is not called)
fetchLastBook(okLast, okBooks) ==
  IF ~okLast THEN NoBook
  ELSE IF lastBookItem.present /\ lastBookItem.val # <<>>
       THEN Find(getBooks(okBooks), lastBookItem.val)
       ELSE NoBook

\* -------------------------------------------------------------- navigation
Top == stack[Len(stack)]

RemoveAt(s, i) == SubSeq(s, 1, i - 1) \o SubSeq(s, i + 1, Len(s))

InFlight == BagToSet(tasks)

UsedKeys == { stack[i].key : i \in 1..Len(stack) } \cup { t.key : t \in InFlight }

\* The key the navigator gives a new route: one no live route or handler holds
FreshKey ==
  CHOOSE k \in 1..(Cardinality(UsedKeys) + 1) :
     k \notin UsedKeys /\ \A j \in 1..(k - 1) : j \in UsedKeys

HomeRoute(lastBook) == Route("Home", 1, lastBook, <<>>)

\* A route that loses the focus. The books a BookList route holds are read
\* again by its 'focus' listener before the list can be pressed again, so
\* they are dropped here.
Covered(st) == [st EXCEPT ![Len(st)].books = <<>>]

\* navigation.navigate(name, params): a new route on top of the stack
navigate(name, book, books) ==
  Append(Covered(stack), Route(name, FreshKey, book, books))

\* navigation.goBack() called by the screen of route `key`: the navigator
\* removes that route when it is in the stack above the first one, and
\* ignores the call otherwise.
goBack(st, key) ==
  IF \E i \in 2..Len(st) : st[i].key = key
  THEN RemoveAt(st, CHOOSE i \in 2..Len(st) : st[i].key = key)
  ELSE st

\* The 'focus' listener of BookListScreen (fetchBooks): runs when the
\* focused route changes to a BookList route.
fetchBooks(old, new, books) ==
  IF new[Len(new)].name = "BookList" /\ new[Len(new)].key # old[Len(old)].key
  THEN [new EXCEPT ![Len(new)].books = books]
  ELSE new

\* ------------------------------------------------------- the pure pieces
\* A variant that compares the fields without trimming them
fieldsMissingNoTrim(title, author, status) ==
  title = <<>> \/ author = <<>> \/ status = <<>>

\* the guard of saveBook: true when the alert is shown
fieldsMissing(title, author, status) ==
  Trim(title) = <<>> \/ Trim(author) = <<>> \/ Trim(status) = <<>>

\* books.map(b => b.id === id ? { ...b, title, author, status } : b)
updatedBooksEdit(books, id, title, author, status) ==
  [i \in 1..Len(books) |->
     IF books[i].id = id
     THEN [books[i] EXCEPT !.title = title, !.author = author, !.status = status]
     ELSE books[i]]

\* [...books, { id: Date.now(), title, author, status }]
updatedBooksAdd(books, title, author, status) ==
  Append(books, Book(now, title, author, status))

\* books.filter(b => b.id !== id)
RECURSIVE updatedBooksDelete(_, _)
updatedBooksDelete(books, id) ==
  IF books = <<>> THEN <<>>
  ELSE IF Head(books).id # id
       THEN <<Head(books)>> \o updatedBooksDelete(Tail(books), id)
       ELSE updatedBooksDelete(Tail(books), id)

\* A variant whose rejected write leaves the entry removed
saveBooksTorn(books, ok) == IF ok THEN Item(JSONStringify(books)) ELSE NoItem

\* A variant that keeps the records written since the array was computed
saveBooksMerge(books, ok) ==
  IF ok
  THEN Item(JSONStringify(
         books \o SelectSeq(ParsedItem(booksItem),
                            LAMBDA b : \A i \in 1..Len(books) : books[i].id # b.id)))
  ELSE booksItem

\* saveBooks(books): the 'books' entry afterwards; ok is whether setItem resolves
saveBooks(books, ok) == IF ok THEN Item(JSONStringify(books)) ELSE booksItem

\* ------------------------------------------------------ handlers in flight
One(t) == SetToBag({t})

\* The invocations left in flight when another has written: those that had
\* read already now hold a snapshot older than the entry.
MarkStale(B, ok) ==
  IF ~ok THEN B
  ELSE LET f(t) == IF t.pc = "write" THEN [t EXCEPT !.stale = TRUE] ELSE t
       IN [u \in { f(t) : t \in BagToSet(B) } |->
             CopiesIn(u, B)
             + (IF u.pc = "write" /\ u.stale
                THEN CopiesIn([u EXCEPT !.stale = FALSE], B) ELSE 0)]

IsAdd(t) == t.kind = "save" /\ ~t.editing

RECURSIVE Copies(_, _)
Copies(S, B) ==
  IF S = {} THEN 0
  ELSE LET t == CHOOSE x \in S : TRUE IN CopiesIn(t, B) + Copies(S \ {t}, B)

AddsInFlight == Copies({ t \in InFlight : IsAdd(t) }, tasks)

\* ------------------------------------------------------------------ Init
\* The first launch, on an empty store
Launched ==
  /\ booksItem = NoItem
  /\ lastBookItem = NoItem
  /\ now = 1
  /\ stack = <<HomeRoute(NoBook)>>
  /\ tasks = EmptyBag
  /\ ev = NoEv

Init == Launched /\ env = [faulty |-> TRUE, rapid |-> TRUE]

InitReliable == Launched /\ env = [faulty |-> FALSE, rapid |-> TRUE]

InitSerial == Launched /\ env = [faulty |-> FALSE, rapid |-> FALSE]

\* --------------------------------------------------------------- actions
\* A handler suspended at an await resumes before the user reaches another
\* screen: the navigation buttons and a new launch are taken when no handler
\* is in flight; the Save and Delete buttons can be pressed again at once
\* (a rapid double tap).
Quiet == InFlight = {}

CanPress == env.rapid \/ Quiet

\* The wall clock advances.
Tick ==
  /\ now + 1 \in Times
  /\ now' = now + 1
  /\ ev' = NoEv
  /\ UNCHANGED <<booksItem, lastBookItem, stack, tasks, env>>

\* The app is launched again: the navigator starts at Home, whose effect
\* runs fetchLastBook.
AppStart ==
  /\ Quiet
  /\ \E okLast \in Outcomes, okBooks \in Outcomes :
       stack' = <<HomeRoute(fetchLastBook(okLast, okBooks))>>
  /\ ev' = Ev("appStart", NoTask, TRUE, FALSE)
  /\ UNCHANGED <<booksItem, lastBookItem, now, tasks, env>>

\* Home: the "View Details" button, shown when lastBook is set
HomeViewDetails ==
  /\ Quiet
  /\ Top.name = "Home"
  /\ Top.book # NoBook
  /\ stack' = navigate("BookDetails", Top.book, <<>>)
  /\ ev' = NoEv
  /\ UNCHANGED <<booksItem, lastBookItem, now, tasks, env>>

\* Home: the "Go to Book List" button; the list fetches on focus
HomeGoToBookList ==
  /\ Quiet
  /\ Top.name = "Home"
  /\ \E ok \in Outcomes : stack' = navigate("BookList", NoBook, getBooks(ok))
  /\ ev' = NoEv
  /\ UNCHANGED <<booksItem, lastBookItem, now, tasks, env>>

\* BookList: a press on item i (setItem of lastBook, then navigate)
BookListOpen ==
  /\ Quiet
  /\ Top.name = "BookList"
  /\ \E i \in 1..Len(Top.books), ok \in Outcomes :
       IF ok
       THEN /\ lastBookItem' = Item(ToStr(Top.books[i].id))
            /\ stack' = navigate("BookDetails", Top.books[i], <<>>)
       ELSE UNCHANGED <<lastBookItem, stack>>
  /\ ev' = NoEv
  /\ UNCHANGED <<booksItem, now, tasks, env>>

\* BookList: the "Add Book" button
BookListAddBook ==
  /\ Quiet
  /\ Top.name = "BookList"
  /\ stack' = navigate("AddEditBook", NoBook, <<>>)
  /\ ev' = NoEv
  /\ UNCHANGED <<booksItem, lastBookItem, now, tasks, env>>

\* BookDetails: the "Edit Book" button
DetailsEdit ==
  /\ Quiet
  /\ Top.name = "BookDetails"
  /\ stack' = navigate("AddEditBook", Top.book, <<>>)
  /\ ev' = NoEv
  /\ UNCHANGED <<booksItem, lastBookItem, now, tasks, env>>

\* The header's back button
HeaderBack ==
  /\ Quiet
  /\ Len(stack) > 1
  /\ \E ok \in Outcomes :
       stack' = fetchBooks(stack, SubSeq(stack, 1, Len(stack) - 1), getBooks(ok))
  /\ ev' = NoEv
  /\ UNCHANGED <<booksItem, lastBookItem, now, tasks, env>>

\* What the inputs can hold: what was typed, or, for an edit, the field
\* of route.params.book the input started with.
TitleInputs  == Titles \cup (IF Top.book # NoBook THEN {Top.book.title} ELSE {})
AuthorInputs == Authors \cup (IF Top.book # NoBook THEN {Top.book.author} ELSE {})
StatusInputs == Statuses \cup (IF Top.book # NoBook THEN {Top.book.status} ELSE {})

\* saveBook up to its first await: the validation, then getBooks is called
saveBookStart ==
  /\ Top.name = "AddEditBook"
  /\ \E title \in TitleInputs, author \in AuthorInputs, status \in StatusInputs :
       IF fieldsMissing(title, author, status)
       THEN /\ ev' = Ev("alert", NoTask, TRUE, FALSE)
            /\ UNCHANGED tasks
       ELSE /\ CanPress
            /\ BagCardinality(tasks) < MaxTasks
            /\ Top.book = NoBook => Len(Persisted) + AddsInFlight < MaxBooks
            /\ tasks' = tasks (+) One(Task("save", Top.key, Top.book # NoBook,
                                           Top.book.id, title, author, status))
            /\ ev' = NoEv
  /\ UNCHANGED <<booksItem, lastBookItem, now, stack, env>>

\* saveBook from the end of getBooks to the call of saveBooks
saveBookRead(t) ==
  /\ t.kind = "save" /\ t.pc = "read"
  /\ \E ok \in Outcomes :
       LET books == getBooks(ok)
           out == IF t.editing
                  THEN updatedBooksEdit(books, t.id, t.title, t.author, t.status)
                  ELSE updatedBooksAdd(books, t.title, t.author, t.status)
       IN tasks' = (tasks (-) One(t)) (+) One([t EXCEPT !.pc = "write", !.out = out])
  /\ ev' = NoEv
  /\ UNCHANGED <<booksItem, lastBookItem, now, stack, env>>

\* saveBook from the end of saveBooks on: navigation.goBack()
saveBookWrite(t) ==
  /\ t.kind = "save" /\ t.pc = "write"
  /\ \E ok \in Outcomes, fok \in Outcomes :
       /\ booksItem' = saveBooks(t.out, ok)
       /\ stack' = fetchBooks(stack, goBack(stack, t.key),
                              IF fok THEN ParsedItem(booksItem') ELSE <<>>)
       /\ ev' = Ev("saveDone", t, ok, Lost(Persisted, ParsedItem(booksItem')))
       /\ tasks' = MarkStale(tasks (-) One(t), ok)
  /\ UNCHANGED <<lastBookItem, now, env>>

\* BookDetails: "Delete Book" confirmed; deleteBook up to its first await
deleteBookStart ==
  /\ Top.name = "BookDetails"
  /\ CanPress
  /\ BagCardinality(tasks) < MaxTasks
  /\ tasks' = tasks (+) One(Task("delete", Top.key, FALSE, Top.book.id, <<>>, <<>>, <<>>))
  /\ ev' = NoEv
  /\ UNCHANGED <<booksItem, lastBookItem, now, stack, env>>

\* deleteBook from the end of getBooks to the call of saveBooks
deleteBookRead(t) ==
  /\ t.kind = "delete" /\ t.pc = "read"
  /\ \E ok \in Outcomes :
       tasks' = (tasks (-) One(t))
                (+) One([t EXCEPT !.pc = "write",
                                  !.out = updatedBooksDelete(getBooks(ok), t.id)])
  /\ ev' = NoEv
  /\ UNCHANGED <<booksItem, lastBookItem, now, stack, env>>

\* deleteBook from the end of saveBooks on: navigation.goBack()
deleteBookWrite(t) ==
  /\ t.kind = "delete" /\ t.pc = "write"
  /\ \E ok \in Outcomes, fok \in Outcomes :
       /\ booksItem' = saveBooks(t.out, ok)
       /\ stack' = fetchBooks(stack, goBack(stack, t.key),
                              IF fok THEN ParsedItem(booksItem') ELSE <<>>)
       /\ ev' = Ev("deleteDone", t, ok, Lost(Persisted, ParsedItem(booksItem')))
       /\ tasks' = MarkStale(tasks (-) One(t), ok)
  /\ UNCHANGED <<lastBookItem, now, env>>

Next ==
  \/ Tick
  \/ AppStart
  \/ HomeViewDetails
  \/ HomeGoToBookList
  \/ BookListOpen
  \/ BookListAddBook
  \/ DetailsEdit
  \/ HeaderBack
  \/ saveBookStart
  \/ \E t \in InFlight : saveBookRead(t)
  \/ \E t \in InFlight : saveBookWrite(t)
  \/ deleteBookStart
  \/ \E t \in InFlight : deleteBookRead(t)
  \/ \E t \in InFlight : deleteBookWrite(t)

\* The app over a storage that can reject any call, with rapid presses
Spec == Init /\ [][Next]_vars

\* The app over a storage that never rejects a call, with rapid presses
SpecReliable == InitReliable /\ [][Next]_vars

\* The app over a storage that never rejects a call, each handler ending
\* before the next press
SpecSerial == InitSerial /\ [][Next]_vars

\* ================================================================ claims
\* The step ends invocation t of saveBook / deleteBook, and its setItem
\* resolved (ok) or was rejected (~ok).
SaveEnds(t, ok)   == ev'.op = "saveDone" /\ ev'.ok = ok /\ saveBookWrite(t)
DeleteEnds(t, ok) == ev'.op = "deleteDone" /\ ev'.ok = ok /\ deleteBookWrite(t)

\* books with every record of that id removed (the wording of the spec)
Without(books, id) == SelectSeq(books, LAMBDA b : b.id # id)

HasFields(b, t) == b.title = t.title /\ b.author = t.author /\ b.status = t.status

NonBlank(b) == Trim(b.title) # <<>> /\ Trim(b.author) # <<>> /\ Trim(b.status) # <<>>

StackKeys(st) == { st[i].key : i \in 1..Len(st) }

\* the routes of a stack, without the books a BookList route holds
Routes(st) == [i \in 1..Len(st) |-> [st[i] EXCEPT !.books = <<>>]]

\* C1: no two records of the persisted 'books' collection share an id.
C1_UniqueIds ==
  \A i, j \in 1..Len(Persisted) : i # j => Persisted[i].id # Persisted[j].id

\* C2: once saveBook has completed (its write resolved, no other write
\* since it read), a getBooks that succeeds returns a collection with a
\* record holding the saved title, author and status, under the book's id
\* when the save is an edit of a persisted book.
C2_RoundTrip ==
  [][\A t \in InFlight :
       (SaveEnds(t, TRUE) /\ ~t.stale)
       => \E i \in 1..Len(getBooks(TRUE)') :
             /\ HasFields(getBooks(TRUE)'[i], t)
             /\ (t.editing /\ t.id \in Ids(Persisted)) => getBooks(TRUE)'[i].id = t.id]_vars

\* C3: saveBook from the edit form of a book whose id matches no persisted
\* record (it was deleted after the form's book was loaded) appends a new
\* record, with the saved fields and an id no persisted record had.
C3_EditOfMissingAppends ==
  [][\A t \in InFlight :
       (SaveEnds(t, TRUE) /\ ~t.stale /\ t.editing /\ t.id \notin Ids(Persisted))
       => /\ Len(Persisted') = Len(Persisted) + 1
          /\ SubSeq(Persisted', 1, Len(Persisted)) = Persisted
          /\ HasFields(Persisted'[Len(Persisted')], t)
          /\ Persisted'[Len(Persisted')].id \notin Ids(Persisted)]_vars

\* C4: an edit whose id matches a persisted record replaces the title,
\* author and status of that record only: the number of records, the
\* record's id and position and every other record are unchanged, and
\* exactly one record has that id.
C4_EditFrame ==
  [][\A t \in InFlight :
       (SaveEnds(t, TRUE) /\ ~t.stale /\ t.editing /\ t.id \in Ids(Persisted))
       => /\ Len(Persisted') = Len(Persisted)
          /\ \A i \in 1..Len(Persisted) :
               Persisted'[i] =
                 IF Persisted[i].id = t.id
                 THEN [Persisted[i] EXCEPT !.title = t.title, !.author = t.author,
                                           !.status = t.status]
                 ELSE Persisted[i]
          /\ Cardinality({ i \in 1..Len(Persisted') : Persisted'[i].id = t.id }) = 1]_vars

\* C5: deleteBook(id) leaves the persisted collection equal to the one
\* before it with every record of that id removed, the others kept in
\* order (unchanged when no record has the id).
C5_DeleteRemovesOnlyId ==
  [][\A t \in InFlight :
       (DeleteEnds(t, TRUE) /\ ~t.stale) => Persisted' = Without(Persisted, t.id)]_vars

\* C6: no step of deleteBook changes the 'lastBook' entry; after a delete of
\* id x that was written, resolving the pointer x against the collection finds
\* nothing; and a launch with a 'lastBook' entry that resolves to no persisted
\* record ends with Home holding no last book.
C6_DanglingLastViewed ==
  [][/\ (deleteBookStart \/ \E t \in InFlight : deleteBookRead(t) \/ deleteBookWrite(t))
          => lastBookItem' = lastBookItem
     /\ \A t \in InFlight :
          DeleteEnds(t, TRUE) => Find(Persisted', ToStr(t.id)) = NoBook
     /\ (AppStart /\ lastBookItem.present /\ Find(Persisted, lastBookItem.val) = NoBook)
          => /\ stack' = <<HomeRoute(NoBook)>>
             /\ lastBookItem' = lastBookItem]_vars

\* A launch found a 'lastBook' entry whose book is gone from a collection
\* that still holds other books, and Home shows no last book.
C6_Witness ==
  /\ ev.op = "appStart"
  /\ lastBookItem.present
  /\ Persisted # <<>>
  /\ Find(Persisted, lastBookItem.val) = NoBook
  /\ stack = <<HomeRoute(NoBook)>>

\* C7: when the write of saveBook or deleteBook is rejected, the 'books'
\* entry is what it was before, the invocation ends, and the navigator goes
\* back exactly as when the write resolves.
C7_WriteFailureSilent ==
  [][\A t \in InFlight :
       (SaveEnds(t, FALSE) \/ DeleteEnds(t, FALSE))
       => /\ booksItem' = booksItem
          /\ Routes(stack') = Routes(goBack(stack, t.key))
          /\ t.key \notin StackKeys(SubSeq(stack', 2, Len(stack')))
          /\ BagCardinality(tasks') = BagCardinality(tasks) - 1]_vars

\* A write was rejected while the collection held a book.
C7_Witness ==
  /\ ev.op \in {"saveDone", "deleteDone"}
  /\ ~ev.ok
  /\ Persisted # <<>>

\* C8: a write that resolves replaces the collection by the array the
\* invocation computed from its own read, whatever was written since: with a
\* stale snapshot the writes made in between are lost.
C8_LastWriteWins ==
  [][\A t \in InFlight :
       (SaveEnds(t, TRUE) \/ DeleteEnds(t, TRUE)) => Persisted' = t.out]_vars

\* Two adds were in flight together: the second wrote from a snapshot older
\* than the first one's write, and a record persisted before is gone.
C8_Witness ==
  /\ ev.op = "saveDone"
  /\ ev.ok /\ ev.lost
  /\ InFlight = {}

\* C9: a saveBook with a blank title, author or status starts no read and
\* no write (nothing but the alert happens), so every invocation of saveBook
\* in flight and every persisted record has the three fields non-blank.
C9_ValidatedBeforeStore ==
  /\ [](\A i \in 1..Len(Persisted) : NonBlank(Persisted[i]))
  /\ [][/\ ev'.op = "alert"
            => UNCHANGED <<booksItem, lastBookItem, now, stack, tasks, env>>
        /\ \A t \in InFlight' : t.kind = "save" => NonBlank(t)]_vars

\* The alert was shown while the collection held a book.
C9_Witness ==
  /\ ev.op = "alert"
  /\ Persisted # <<>>

\* C10: an add or an edit keeps every record persisted before it, other
\* than the one edited, also when its read fails.
C10_KeepsOtherRecords ==
  [][\A t \in InFlight :
       (\E ok \in BOOLEAN : SaveEnds(t, ok)) /\ ~t.stale
       => \A i \in 1..Len(Persisted) :
            (t.editing /\ Persisted[i].id = t.id)
            \/ \E j \in 1..Len(Persisted') : Persisted'[j] = Persisted[i]]_vars

====
